---- MODULE Spec2Model ----
(***************************************************************************)
(* Model of the scheduled game-catalogue sync of src/functions/index.js:   *)
(* getAllExternalGames (the aggregator), syncFirestoreWithExternalData     *)
(* (load, reconcile, batched commits) and the syncGames wrapper.           *)
(*                                                                         *)
(* JavaScript strings whose characters the code inspects (name, system,    *)
(* url, thumbnail) are sequences of one-character strings; category and    *)
(* source, which the code only compares and tests for emptiness, are       *)
(* TLA+ strings.                                                           *)
(***************************************************************************)
EXTENDS Integers, Sequences, FiniteSets, TLC

\* ------------------------------------------------------------------ bounds
\* Invocations of syncGames in one behaviour.
MaxRuns == 2
\* Document identifiers are drawn from 1..MaxDocId.
MaxDocId == 5
\* index.js:48 sets BATCH_SIZE = 499; the model scales it down so that full
\* batches, a remainder batch and several commits occur within the bounds.
BATCH_SIZE == 2

DocIds == 1..MaxDocId

\* ----------------------------------------------------------------- strings
Upper == <<"A","B","C","D","E","F","G","H","I","J","K","L","M",
           "N","O","P","Q","R","S","T","U","V","W","X","Y","Z">>
Lower == <<"a","b","c","d","e","f","g","h","i","j","k","l","m",
           "n","o","p","q","r","s","t","u","v","w","x","y","z">>
Digits == {"0","1","2","3","4","5","6","7","8","9"}
LowerSet == {Lower[i] : i \in 1..26}

UpperToLower == [c \in {Upper[i] : i \in 1..26} |->
                    Lower[CHOOSE i \in 1..26 : Upper[i] = c]]

\* String.prototype.toLowerCase, one character.
ToLowerChar(c) == IF c \in DOMAIN UpperToLower THEN UpperToLower[c] ELSE c

toLowerCase(s) == [i \in 1..Len(s) |-> ToLowerChar(s[i])]

\* String.prototype.startsWith
startsWith(s, p) == Len(s) >= Len(p) /\ SubSeq(s, 1, Len(p)) = p

\* String.prototype.includes
includes(s, sub) ==
    \E i \in 0..(Len(s) - Len(sub)) : SubSeq(s, i + 1, i + Len(sub)) = sub

\* .replace(/[^a-z0-9]/g, '_'): every character outside [a-z0-9] becomes '_'.
AlphaNumeric == LowerSet \cup Digits

SanitizeChar(c) == IF c \in AlphaNumeric THEN c ELSE "_"

Sanitize(s) == [i \in 1..Len(s) |-> SanitizeChar(s[i])]

\* `${game.name.toLowerCase().replace(/[^a-z0-9]/g, '_')}-${game.system}`
UniqueKey(game) == Sanitize(toLowerCase(game.name)) \o <<"-">> \o game.system

EXAMPLE_COM ==
    <<"h","t","t","p","s",":","/","/","e","x","a","m","p","l","e",".","c","o","m">>
PLACEHOLD_CO ==
    <<"h","t","t","p","s",":","/","/","p","l","a","c","e","h","o","l","d",".","c","o">>

\* ------------------------------------------------------- category inference
GENRE_MAP == <<
    [key |-> <<"m","a","r","i","o">>, category |-> "Platformer"],
    [key |-> <<"z","e","l","d","a">>, category |-> "Adventure"],
    [key |-> <<"s","t","r","e","e","t"," ","f","i","g","h","t","e","r">>,
         category |-> "Fighting"],
    [key |-> <<"s","o","n","i","c">>, category |-> "Platformer"],
    [key |-> <<"f","i","n","a","l"," ","f","a","n","t","a","s","y">>,
         category |-> "RPG & Strategy"],
    [key |-> <<"p","a","c","-","m","a","n">>, category |-> "Puzzle"],
    [key |-> <<"m","e","t","r","o","i","d">>, category |-> "Action"],
    [key |-> <<"d","o","o","m">>, category |-> "Shooter"],
    [key |-> <<"t","e","t","r","i","s">>, category |-> "Puzzle"],
    [key |-> <<"k","e","r","n","a","l">>, category |-> "System"],
    [key |-> <<"b","a","s","i","c">>, category |-> "System"],
    [key |-> <<"c","a","s","t","l","e","v","a","n","i","a">>,
         category |-> "Platformer"],
    [key |-> <<"d","u","c","k"," ","h","u","n","t">>, category |-> "Shmups"],
    [key |-> <<"c","h","r","o","n","o"," ","t","r","i","g","g","e","r">>,
         category |-> "RPG & Strategy"],
    [key |-> <<"m","e","g","a"," ","m","a","n">>, category |-> "Platformer"],
    [key |-> <<"p","o","k","e","m","o","n">>, category |-> "RPG & Strategy"],
    [key |-> <<"c","o","l","u","m","n","s">>, category |-> "Puzzle"],
    [key |-> <<"p","h","a","n","t","a","s","y"," ","s","t","a","r">>,
         category |-> "RPG & Strategy"],
    [key |-> <<"t","h","u","n","d","e","r","b","i","r","d","s">>,
         category |-> "Shmups"],
    [key |-> <<"s","l","u","g","f","e","s","t">>, category |-> "Sports"] >>

\* The array inferCategory hands to randomChoice when no keyword matches.
FallbackCategories ==
    {"Platformer", "RPG & Strategy", "Fighting", "Shooter", "Puzzle",
     "Adventure", "Sports", "Racing", "Simulation", "System"}

\* randomChoice(arr): any element of arr.
randomChoice(arr) == arr

\* inferCategory(name), as the set of values one call can return: the
\* category of the first matching keyword, else any fallback category.
inferCategory(name) ==
    LET n == toLowerCase(name)
        hits == {i \in 1..Len(GENRE_MAP) : includes(n, GENRE_MAP[i].key)}
    IN  IF hits # {}
        THEN {GENRE_MAP[CHOOSE i \in hits : \A j \in hits : i <= j].category}
        ELSE randomChoice(FallbackCategories)

\* ------------------------------------------------------------ record shape
Game(name, system, url, thumbnail, category, source) ==
    [name |-> name, system |-> system, url |-> url, thumbnail |-> thumbnail,
     category |-> category, source |-> source]

\* ------------------------------------------------------------------- state
VARIABLES
    store,            \* the Firestore collection: document id -> fields
    endpoints,        \* what each registered adapter's provider serves
    pathBound,        \* whether the free identifier FIRESTORE_COLLECTION_PATH
                      \* resolves in the runtime's global scope
    pc,               \* where the current invocation of syncGames stands
    runs,             \* invocations of syncGames so far
    existingGamesMap, \* uniqueKey -> [id, data]
    externalGames,    \* the aggregator's result
    idx,              \* position of the reconcile loop in externalGames
    currentBatch,     \* operations of the open write batch
    batchOperations,
    updatesCount,
    additionsCount,
    committed,        \* batches committed by this run, in order
    inFlight,         \* commits issued and not yet settled
    adaptersInvoked,  \* whether this run called getAllExternalGames
    failure,          \* what stopped the last run: none/load/commit/report
    outcome,          \* how the last syncGames invocation ended
    reported,         \* the counts the run logged on completion
    store0,           \* the collection when the current run started
    history           \* one summary per finished run

vars == <<store, endpoints, pathBound, pc, runs, existingGamesMap,
          externalGames, idx, currentBatch, batchOperations, updatesCount,
          additionsCount, committed, inFlight, adaptersInvoked, failure,
          outcome, reported, store0, history>>

runLocals == <<existingGamesMap, externalGames, idx, currentBatch,
               batchOperations, updatesCount, additionsCount, committed,
               inFlight, adaptersInvoked>>

NoReport == [logged |-> FALSE]

\* -------------------------------------------------------------- aggregator
\* One source adapter: its whole body is wrapped in try/catch, so an
\* unreachable provider yields the (empty) list collected so far.
Fetch(endpoint) ==
    [status |-> "fulfilled",
     value  |-> IF endpoint.reachable THEN endpoint.listing ELSE <<>>]

\* Promise.allSettled(externalSources)
allSettled(eps) == [i \in 1..Len(eps) |-> Fetch(eps[i])]

RECURSIVE Concat(_)
\* results.forEach: concatenate the fulfilled results in registration order.
Concat(results) ==
    IF results = <<>> THEN <<>>
    ELSE (IF Head(results).status = "fulfilled"
          THEN Head(results).value ELSE <<>>) \o Concat(Tail(results))

RECURSIVE Dedup_LastWins(_, _)
\* Dedup with the later record of a key replacing the earlier one.
Dedup_LastWins(all, seenKeys) ==
    IF all = <<>> THEN {<<>>}
    ELSE LET game == Head(all)
             rest == Tail(all)
         IN  IF \E n \in 1..Len(rest) : UniqueKey(rest[n]) = UniqueKey(game)
             THEN Dedup_LastWins(rest, seenKeys)
             ELSE {<<[game EXCEPT !.category = c]>> \o tail :
                     c \in inferCategory(game.name),
                     tail \in Dedup_LastWins(rest, seenKeys)}

RECURSIVE Dedup_KeepAll(_, _)
\* Every fetched record kept, whether or not its key was seen before.
Dedup_KeepAll(all, seenKeys) ==
    IF all = <<>> THEN {<<>>}
    ELSE LET game == Head(all)
         IN  {<<[game EXCEPT !.category = c]>> \o rest :
                 c \in inferCategory(game.name),
                 rest \in Dedup_KeepAll(Tail(all), seenKeys)}

RECURSIVE Dedup(_, _)
\* allExternalGames.forEach over the uniqueGames Map: the first game of a
\* key is kept, with its category re-inferred; every sequence the random
\* fallback of inferCategory can produce.
Dedup(all, seenKeys) ==
    IF all = <<>> THEN {<<>>}
    ELSE LET game == Head(all)
             uniqueKey == UniqueKey(game)
         IN  IF uniqueKey \in seenKeys
             THEN Dedup(Tail(all), seenKeys)
             ELSE {<<[game EXCEPT !.category = c]>> \o rest :
                     c \in inferCategory(game.name),
                     rest \in Dedup(Tail(all), seenKeys \cup {uniqueKey})}

\* The aggregate lost as soon as one provider is unreachable.
getAllExternalGames_FailFast(eps) ==
    IF \E a \in 1..Len(eps) : ~eps[a].reachable
    THEN {<< >>}
    ELSE Dedup(Concat(allSettled(eps)), {})

getAllExternalGames(eps) == Dedup(Concat(allSettled(eps)), {})

\* -------------------------------------------------------------- reconciler
UrlRule(currentData, game) ==
    /\ game.url # <<>>
    /\ \/ startsWith(currentData.url, EXAMPLE_COM)
       \/ startsWith(currentData.url, PLACEHOLD_CO)
       \/ currentData.url # game.url

ThumbnailRule(currentData, game) ==
    /\ game.thumbnail # <<>>
    /\ \/ startsWith(currentData.thumbnail, PLACEHOLD_CO)
       \/ currentData.thumbnail # game.thumbnail

CategoryRule(currentData, game) ==
    currentData.category = "Other" /\ game.category # "Other"

SourceRule(currentData, game) ==
    game.source # "" /\ currentData.source # game.source

\* needsUpdate without the source rule setting it.
needsUpdate_IgnoresSource(currentData, game) ==
    \/ UrlRule(currentData, game)
    \/ ThumbnailRule(currentData, game)
    \/ CategoryRule(currentData, game)

needsUpdate(currentData, game) ==
    \/ UrlRule(currentData, game)
    \/ ThumbnailRule(currentData, game)
    \/ CategoryRule(currentData, game)
    \/ SourceRule(currentData, game)

\* The external record's four fields copied over unconditionally.
Merged_SpreadAll(currentData, game) ==
    [currentData EXCEPT !.url = game.url, !.thumbnail = game.thumbnail,
                        !.category = game.category, !.source = game.source]

\* currentData after the four in-place assignments.
Merged(currentData, game) ==
    [currentData EXCEPT
       !.url       = IF UrlRule(currentData, game) THEN game.url ELSE @,
       !.thumbnail = IF ThumbnailRule(currentData, game)
                     THEN game.thumbnail ELSE @,
       !.category  = IF CategoryRule(currentData, game)
                     THEN game.category ELSE @,
       !.source    = IF SourceRule(currentData, game) THEN game.source ELSE @]

\* snapshot.forEach in document-id order; a later document of the same key
\* replaces the earlier entry.
LoadMap(st) ==
    LET keys == {UniqueKey(st[d]) : d \in DOMAIN st}
        last(k) == CHOOSE d \in DOMAIN st :
                      /\ UniqueKey(st[d]) = k
                      /\ \A e \in DOMAIN st : UniqueKey(st[e]) = k => e <= d
    IN  [k \in keys |-> [id |-> last(k), data |-> st[last(k)]]]

\* ---------------------------------------------------------- batch committer
RECURSIVE ApplyBatch(_, _)
\* WriteBatch.commit: set creates the document, update overwrites the given
\* fields of an existing one; all operations of the batch at once.
ApplyBatch(st, batch) ==
    IF batch = <<>> THEN st
    ELSE LET op == Head(batch)
             st1 == IF op.type = "set"
                    THEN [d \in DOMAIN st \cup {op.id} |->
                            IF d = op.id THEN op.data ELSE st[d]]
                    ELSE [st EXCEPT ![op.id] = op.data]
         IN  ApplyBatch(st1, Tail(batch))

\* Identifiers that may collide with a stored document's.
FreshIds_MayReuse ==
    DocIds \ {currentBatch[i].id : i \in 1..Len(currentBatch)}

\* Identifiers db.collection(...).doc() may generate: any unused one.
FreshIds == DocIds \ (DOMAIN store \cup {currentBatch[i].id : i \in 1..Len(currentBatch)})

Summary(f, batches) ==
    [start |-> store0, failure |-> f, additions |-> additionsCount,
     updates |-> updatesCount, commits |-> Len(batches)]

\* The run ends: syncGames either returns null or rethrows.
EndRun(f, out, rep, batches) ==
    /\ pc' = "idle"
    /\ failure' = f
    /\ outcome' = out
    /\ reported' = rep
    /\ history' = Append(history, Summary(f, batches))

\* Line 503 calls console itself, which is an object: a TypeError, which
\* syncGames catches and rethrows as 'Game sync failed.'.
CompleteRun(batches) == EndRun("report", "thrown", NoReport, batches)

\* ------------------------------------------------------------------ actions
\* syncGames is triggered; db.collection(FIRESTORE_COLLECTION_PATH) is
\* evaluated inside the try of lines 419-431.
Invoke ==
    /\ pc = "idle"
    /\ runs < MaxRuns
    /\ runs' = runs + 1
    /\ store0' = store
    /\ existingGamesMap' = << >>
    /\ externalGames' = << >>
    /\ idx' = 1
    /\ currentBatch' = << >>
    /\ batchOperations' = 0
    /\ updatesCount' = 0
    /\ additionsCount' = 0
    /\ committed' = << >>
    /\ inFlight' = 0
    /\ adaptersInvoked' = FALSE
    /\ reported' = NoReport
    /\ IF pathBound
       THEN /\ pc' = "loading"
            /\ failure' = "none"
            /\ outcome' = "none"
            /\ history' = history
       ELSE /\ pc' = "idle"
            /\ failure' = "load"
            /\ outcome' = "thrown"
            /\ history' = Append(history,
                 [start |-> store, failure |-> "load", additions |-> 0,
                  updates |-> 0, commits |-> 0])
    /\ UNCHANGED <<store, endpoints, pathBound>>

\* The collection scan resolves; the adapters are started.
LoadResolved ==
    /\ pc = "loading"
    /\ existingGamesMap' = LoadMap(store)
    /\ adaptersInvoked' = TRUE
    /\ pc' = "fetching"
    /\ UNCHANGED <<store, endpoints, pathBound, runs, externalGames, idx,
                   currentBatch, batchOperations, updatesCount,
                   additionsCount, committed, inFlight, failure, outcome,
                   reported, store0, history>>

\* The rejected scan logged and swallowed: the run goes on with an empty map.
LoadRejected_Swallow ==
    /\ pc = "loading"
    /\ failure' = "load"
    /\ existingGamesMap' = << >>
    /\ adaptersInvoked' = TRUE
    /\ pc' = "fetching"
    /\ UNCHANGED <<store, endpoints, pathBound, runs, externalGames, idx,
                   currentBatch, batchOperations, updatesCount,
                   additionsCount, committed, inFlight, outcome, reported,
                   store0, history>>

\* The collection scan rejects: 'Failed to retrieve existing games for sync.'
LoadRejected ==
    /\ pc = "loading"
    /\ EndRun("load", "thrown", NoReport, << >>)
    /\ UNCHANGED <<store, endpoints, pathBound, runs, store0>>
    /\ UNCHANGED runLocals

\* Every adapter has settled; the aggregate is deduplicated.
AdaptersSettled ==
    /\ pc = "fetching"
    /\ \E ext \in getAllExternalGames(endpoints) : externalGames' = ext
    /\ pc' = "loop"
    /\ UNCHANGED <<store, endpoints, pathBound, runs, existingGamesMap, idx,
                   currentBatch, batchOperations, updatesCount,
                   additionsCount, committed, inFlight, adaptersInvoked,
                   failure, outcome, reported, store0, history>>

\* The batch committed only once it exceeds BATCH_SIZE.
AfterOperation_OffByOne(ops) ==
    IF ops > BATCH_SIZE
    THEN pc' = "committing" /\ inFlight' = inFlight + 1
    ELSE pc' = "loop" /\ inFlight' = inFlight

\* After an operation was (or was not) added: a full batch is committed and
\* awaited, otherwise the loop goes on.
AfterOperation(ops) ==
    IF ops >= BATCH_SIZE
    THEN pc' = "committing" /\ inFlight' = inFlight + 1
    ELSE pc' = "loop" /\ inFlight' = inFlight

\* The operation put in front of the batch's earlier ones.
Enqueue_Front(batch, op) == <<op>> \o batch

\* currentBatch.update(...) / currentBatch.set(...): the operation joins the
\* batch after those already in it.
Enqueue(batch, op) == Append(batch, op)

\* One iteration of the reconcile loop, lines 443-495.
ProcessGame ==
    /\ pc = "loop"
    /\ idx <= Len(externalGames)
    /\ LET game == externalGames[idx]
           uniqueKey == UniqueKey(game)
       IN  IF uniqueKey \in DOMAIN existingGamesMap
           THEN LET existingGame == existingGamesMap[uniqueKey]
                    currentData == Merged(existingGame.data, game)
                IN  /\ existingGamesMap' =
                          [existingGamesMap EXCEPT ![uniqueKey].data = currentData]
                    /\ IF needsUpdate(existingGame.data, game)
                       THEN /\ currentBatch' = Enqueue(currentBatch,
                                  [type |-> "update", id |-> existingGame.id,
                                   data |-> currentData])
                            /\ updatesCount' = updatesCount + 1
                            /\ batchOperations' = batchOperations + 1
                       ELSE UNCHANGED <<currentBatch, updatesCount,
                                        batchOperations>>
                    /\ UNCHANGED additionsCount
           ELSE /\ \E id \in FreshIds :
                      currentBatch' = Enqueue(currentBatch,
                          [type |-> "set", id |-> id, data |-> game])
                /\ additionsCount' = additionsCount + 1
                /\ batchOperations' = batchOperations + 1
                /\ UNCHANGED <<existingGamesMap, updatesCount>>
    /\ idx' = idx + 1
    /\ AfterOperation(batchOperations')
    /\ UNCHANGED <<store, endpoints, pathBound, runs, externalGames,
                   committed, adaptersInvoked, failure, outcome, reported,
                   store0, history>>

\* A full batch's commit resolves: lines 491-493.
CommitResolved ==
    /\ pc = "committing"
    /\ store' = ApplyBatch(store, currentBatch)
    /\ committed' = Append(committed, currentBatch)
    /\ inFlight' = inFlight - 1
    /\ batchOperations' = 0
    /\ currentBatch' = << >>
    /\ pc' = "loop"
    /\ UNCHANGED <<endpoints, pathBound, runs, existingGamesMap,
                   externalGames, idx, updatesCount, additionsCount,
                   adaptersInvoked, failure, outcome, reported, store0,
                   history>>

\* The rejected commit logged and the loop resumed with a new batch.
CommitRejected_Continue ==
    /\ pc \in {"committing", "finalCommit"}
    /\ inFlight' = inFlight - 1
    /\ failure' = "commit"
    /\ batchOperations' = 0
    /\ currentBatch' = << >>
    /\ pc' = "loop"
    /\ UNCHANGED <<store, endpoints, pathBound, runs, existingGamesMap,
                   externalGames, idx, updatesCount, additionsCount,
                   committed, adaptersInvoked, outcome, reported, store0,
                   history>>

\* A commit (of a full batch or the final one) rejects: the run throws.
CommitRejected ==
    /\ pc \in {"committing", "finalCommit"}
    /\ inFlight' = inFlight - 1
    /\ EndRun("commit", "thrown", NoReport, committed)
    /\ UNCHANGED <<store, endpoints, pathBound, runs, existingGamesMap,
                   externalGames, idx, currentBatch, batchOperations,
                   updatesCount, additionsCount, committed, adaptersInvoked,
                   store0>>

\* The loop is over, lines 497-504: the remaining operations are committed,
\* or, with none left, the run goes on to its completion message.
AfterLoop ==
    /\ pc = "loop"
    /\ idx > Len(externalGames)
    /\ IF batchOperations > 0
       THEN /\ pc' = "finalCommit"
            /\ inFlight' = inFlight + 1
            /\ UNCHANGED <<failure, outcome, reported, history>>
       ELSE /\ CompleteRun(committed)
            /\ UNCHANGED inFlight
    /\ UNCHANGED <<store, endpoints, pathBound, runs, existingGamesMap,
                   externalGames, idx, currentBatch, batchOperations,
                   updatesCount, additionsCount, committed, adaptersInvoked,
                   store0>>

\* The final batch's commit resolves, then the completion message.
FinalCommitResolved ==
    /\ pc = "finalCommit"
    /\ store' = ApplyBatch(store, currentBatch)
    /\ committed' = Append(committed, currentBatch)
    /\ inFlight' = inFlight - 1
    /\ CompleteRun(committed')
    /\ UNCHANGED <<endpoints, pathBound, runs, existingGamesMap,
                   externalGames, idx, currentBatch, batchOperations,
                   updatesCount, additionsCount, adaptersInvoked, store0>>

Next ==
    \/ Invoke
    \/ LoadResolved
    \/ LoadRejected
    \/ AdaptersSettled
    \/ ProcessGame
    \/ CommitResolved
    \/ CommitRejected
    \/ AfterLoop
    \/ FinalCommitResolved

\* ----------------------------------------------------------- initial states
\* Names, systems, urls and thumbnails the initial collections and the
\* providers' listings are built from.
Mario     == <<"M","a","r","i","o">>
MarioLow  == <<"m","a","r","i","o">>
MarioBang == <<"m","a","r","i","o","!">>
MarioAsk  == <<"m","a","r","i","o","?">>
Zelda     == <<"Z","e","l","d","a">>
Sonic     == <<"S","o","n","i","c">>
C64Char   == <<"C","6","4">>

nes  == <<"n","e","s">>
snes == <<"s","n","e","s">>

UrlEx == EXAMPLE_COM \o <<"/","a">>
UrlPh == PLACEHOLD_CO \o <<"/","a">>
UrlX  == <<"h","t","t","p",":","/","/","x">>
UrlY  == <<"h","t","t","p",":","/","/","y">>
ThPh  == PLACEHOLD_CO \o <<"/","t">>
ThEx  == EXAMPLE_COM \o <<"/","t">>
Th1   == <<"h","t","t","p",":","/","/","t","1">>
Th2   == <<"h","t","t","p",":","/","/","t","2">>

Endpoint(reachable, listing) == [reachable |-> reachable, listing |-> listing]

\* Listings of the registered adapters, in registration order.
Feeds == {
    \* two spellings of one name, and a repeat of the first
    << Endpoint(TRUE, << Game(Mario, nes, UrlX, Th1, "Platformer", "A") >>),
       Endpoint(TRUE, << Game(MarioBang, nes, UrlY, Th2, "Platformer", "B"),
                         Game(MarioLow, nes, UrlY, Th2, "Platformer", "B") >>) >>,
    \* four distinct keys, one repeated key
    << Endpoint(TRUE, << Game(Mario, nes, UrlX, Th1, "Platformer", "A"),
                         Game(Zelda, nes, UrlX, Th1, "Adventure", "A"),
                         Game(MarioAsk, nes, UrlX, Th1, "Platformer", "A") >>),
       Endpoint(TRUE, << Game(MarioBang, nes, UrlY, Th2, "Platformer", "B"),
                         Game(Mario, snes, UrlY, Th2, "Platformer", "B") >>) >>,
    \* the first provider is unreachable; the second labels its record with
    \* a category of its own, as fetchMega65Data does
    << Endpoint(FALSE, << Game(Mario, nes, UrlX, Th1, "Platformer", "A") >>),
       Endpoint(TRUE, << Game(Zelda, snes, UrlY, Th2, "System", "B") >>) >>,
    \* a provider serving placeholder locations
    << Endpoint(TRUE, << Game(Mario, nes, UrlEx, ThPh, "Platformer", "A") >>),
       Endpoint(TRUE, << >>) >>,
    \* empty url, thumbnail and source; a name without a genre keyword
    << Endpoint(TRUE, << Game(Mario, nes, << >>, << >>, "Platformer", "") >>),
       Endpoint(TRUE, << Game(C64Char, nes, UrlY, Th2, "System", "B") >>) >>,
    \* three distinct keys
    << Endpoint(TRUE, << Game(Zelda, nes, UrlX, Th1, "Adventure", "A"),
                         Game(Mario, nes, UrlX, Th1, "Platformer", "A") >>),
       Endpoint(TRUE, << Game(Zelda, snes, UrlY, Th2, "Adventure", "B") >>) >>,
    \* nothing at all
    << Endpoint(TRUE, << >>), Endpoint(TRUE, << >>) >> }

\* Collections the sync may find, as sets of <<id, fields>>.
Stores == {
    {},
    \* a seeded placeholder document
    { <<1, Game(Mario, nes, UrlPh, ThPh, "Other", "")>> },
    \* one document some feeds match, one only the store has
    { <<2, Game(Zelda, nes, UrlX, Th1, "Adventure", "A")>>,
      <<4, Game(Sonic, nes, UrlY, Th2, "Platformer", "B")>> },
    \* a document equal to what a feed serves
    { <<3, Game(Mario, nes, UrlX, Th1, "Platformer", "A")>> },
    \* a document holding placeholder locations and a real source
    { <<1, Game(Mario, nes, UrlEx, ThPh, "Platformer", "A")>>,
      <<2, Game(MarioBang, nes, UrlX, ThEx, "Other", "B")>> },
    \* two documents of one key, as an earlier overlap of runs can leave
    { <<1, Game(Mario, nes, UrlX, Th1, "Platformer", "A")>>,
      <<3, Game(MarioLow, nes, UrlPh, ThPh, "Other", "")>> } }

AsStore(docs) ==
    [d \in {doc[1] : doc \in docs} |->
        (CHOOSE doc \in docs : doc[1] = d)[2]]

InitRun(st, eps, bound, done) ==
    /\ store = st
    /\ endpoints = eps
    /\ pathBound = bound
    /\ pc = "idle"
    /\ runs = done
    /\ existingGamesMap = << >>
    /\ externalGames = << >>
    /\ idx = 1
    /\ currentBatch = << >>
    /\ batchOperations = 0
    /\ updatesCount = 0
    /\ additionsCount = 0
    /\ committed = << >>
    /\ inFlight = 0
    /\ adaptersInvoked = FALSE
    /\ failure = "none"
    /\ outcome = "none"
    /\ reported = NoReport
    /\ store0 = st
    /\ history = << >>

Init ==
    \E docs \in Stores, eps \in Feeds, bound \in BOOLEAN :
        InitRun(AsStore(docs), eps, bound, 0)

Spec == Init /\ [][Next]_vars

\* One stored document and one served record of the same key, over every
\* combination of the four reconciled fields, followed by one record the
\* store does not hold; one run.
UrlsStored    == {<< >>, UrlEx, UrlPh, UrlX, UrlY}
UrlsServed    == {<< >>, UrlEx, UrlX}
ThumbsStored  == {<< >>, ThPh, ThEx, Th1, Th2}
ThumbsServed  == {<< >>, ThPh, Th1}
CategoriesStored == {"Other", "Platformer", "Racing"}
SourcesStored == {"", "A", "B"}
SourcesServed == {"", "A"}

InitFields ==
    \E su \in UrlsStored, eu \in UrlsServed,
       st \in ThumbsStored, et \in ThumbsServed,
       sc \in CategoriesStored,
       ss \in SourcesStored, es \in SourcesServed :
        InitRun(AsStore({ <<1, Game(Mario, nes, su, st, sc, ss)>> }),
                << Endpoint(TRUE, << Game(Mario, nes, eu, et, "Platformer", es),
                                     Game(Zelda, snes, UrlY, Th2, "Adventure", "B") >>) >>,
                TRUE, MaxRuns - 1)

SpecFields == InitFields /\ [][Next]_vars

\* ------------------------------------------------------ notions of the claims
RECURSIVE Flatten(_)
Flatten(batches) ==
    IF batches = << >> THEN << >> ELSE Head(batches) \o Flatten(Tail(batches))

\* The operations this run has issued so far, in order.
IssuedOps ==
    IF pc = "idle" /\ failure = "report" /\ currentBatch # << >>
    THEN Flatten(committed)    \* the final batch is already in committed
    ELSE Flatten(committed) \o currentBatch

\* The aggregate of the current run is available.
Aggregated == adaptersInvoked /\ pc # "fetching"

\* The external records the reconcile loop has dealt with.
Processed == IF Aggregated THEN 1..(idx - 1) ELSE {}

\* The lookup the run built from the collection it loaded.
Map0 == LoadMap(store0)

Matched(i) == UniqueKey(externalGames[i]) \in DOMAIN Map0

Persisted(i) == Map0[UniqueKey(externalGames[i])]

\* The update operations among ops that target document id.
UpdatesOf(ops, id) ==
    {n \in 1..Len(ops) : ops[n].type = "update" /\ ops[n].id = id}

\* The insert operations among ops that carry key k.
InsertsOf(ops, k) ==
    {n \in 1..Len(ops) : ops[n].type = "set" /\ UniqueKey(ops[n].data) = k}

\* The aggregate has just been returned to the run.
JustAggregated == pc = "loop" /\ idx = 1

RunEnded == pc = "idle" /\ history # << >>

\* ---------------------------------------------------------------------- C1
\* C1 (as claimed): a run that follows a run which went through all its
\* commits, with the same adapter outputs, issues no insert and no update
\* and commits no batch.
C1_SecondRunIssuesNothing ==
    \A i \in 2..Len(history) :
        history[i - 1].failure = "report" =>
            /\ history[i].additions = 0
            /\ history[i].updates = 0
            /\ history[i].commits = 0

\* ---------------------------------------------------------------------- C2
\* The IdentityKey of the claim: the lowercased name with every character
\* outside [a-z0-9] removed, then the system.
IdentityKey(game) ==
    <<SelectSeq(toLowerCase(game.name), LAMBDA c : c \in AlphaNumeric),
      game.system>>

AllFetched == Concat(allSettled(endpoints))

\* C2 (as claimed): records of one system whose names are equal after
\* lowercasing and removing the characters outside [a-z0-9] come out of
\* getAllExternalGames as one record, so no two records of the output share
\* an IdentityKey.
C2_OnePerIdentityKey ==
    JustAggregated =>
        \A i, j \in 1..Len(externalGames) :
            i # j => IdentityKey(externalGames[i]) # IdentityKey(externalGames[j])

FirstWithKey(k) ==
    AllFetched[CHOOSE n \in 1..Len(AllFetched) :
        /\ UniqueKey(AllFetched[n]) = k
        /\ \A m \in 1..(n - 1) : UniqueKey(AllFetched[m]) # k]

\* C2 (amended): getAllExternalGames returns exactly one record per key,
\* where the key is the lowercased name with every character outside
\* [a-z0-9] replaced by '_', then '-' and the system; that record has the
\* name, system, url, thumbnail and source of the first fetched record of
\* the key, in adapter-registration order then per-adapter order, and a
\* category inferred anew from its name.
C2_OnePerUniqueKey ==
    JustAggregated =>
        /\ \A i, j \in 1..Len(externalGames) :
              i # j => UniqueKey(externalGames[i]) # UniqueKey(externalGames[j])
        /\ \A n \in 1..Len(AllFetched) :
              \E i \in 1..Len(externalGames) :
                  UniqueKey(externalGames[i]) = UniqueKey(AllFetched[n])
        /\ \A i \in 1..Len(externalGames) :
              LET first == FirstWithKey(UniqueKey(externalGames[i]))
              IN  /\ [externalGames[i] EXCEPT !.category = first.category] = first
                  /\ externalGames[i].category \in inferCategory(first.name)

\* Two fetched records of one key and different sources were reduced to one,
\* while two names that differ only in a stripped character were both kept.
C2_Witness ==
    /\ JustAggregated
    /\ \E m, n \in 1..Len(AllFetched) :
          /\ m < n
          /\ UniqueKey(AllFetched[m]) = UniqueKey(AllFetched[n])
          /\ AllFetched[m].source # AllFetched[n].source
    /\ Len(externalGames) >= 2

\* ---------------------------------------------------------------------- C3
\* The four rules as the claim words them.
C3_RuleA(p, e) ==
    e.url # << >> /\ ( startsWith(p.url, EXAMPLE_COM)
                       \/ startsWith(p.url, PLACEHOLD_CO) \/ p.url # e.url )
C3_RuleB(p, e) ==
    e.thumbnail # << >> /\ ( startsWith(p.thumbnail, PLACEHOLD_CO)
                             \/ p.thumbnail # e.thumbnail )
C3_RuleC(p, e) == p.category = "Other" /\ e.category # "Other"
C3_RuleD(p, e) == e.source # "" /\ e.source # p.source

C4_NoUpdateWhenEqual ==
    LET m == Map0
        ops == IssuedOps
    IN  \A i \in Processed :
            LET e == externalGames[i]
                k == UniqueKey(e)
            IN  k \in DOMAIN m =>
                    ( ( m[k].data.url = e.url
                        /\ m[k].data.thumbnail = e.thumbnail
                        /\ m[k].data.category = e.category
                        /\ m[k].data.source = e.source )
                      => UpdatesOf(ops, m[k].id) = {} )

\* ---------------------------------------------------------------------- C5
NoExternalMatch(d) ==
    Aggregated =>
        \A i \in 1..Len(externalGames) :
            UniqueKey(externalGames[i]) # UniqueKey(store0[d])

\* C5: during and after a run, completed or aborted, every document the
\* run found in the collection is still there, and one with no external
\* record of its key in this run has all its fields unchanged; the documents
\* any earlier run started with are still in the collection.
C5_StoreOnlyUntouched ==
    /\ \A d \in DOMAIN store0 :
          /\ d \in DOMAIN store
          /\ NoExternalMatch(d) => store[d] = store0[d]
    /\ \A r \in 1..Len(history) : DOMAIN history[r].start \subseteq DOMAIN store

\* A run wrote to the collection while a document without external match
\* stayed as it was.
C5_Witness ==
    /\ RunEnded /\ Aggregated
    /\ committed # << >>
    /\ store # store0
    /\ \E d \in DOMAIN store0 : NoExternalMatch(d) /\ store[d] = store0[d]

\* ---------------------------------------------------------------------- C6
\* C6: an update operation carries the persisted record with exactly the
\* fields whose rule fired replaced by the external values; name, system
\* and the fields whose rule did not fire keep their stored values, and an
\* empty external url, thumbnail or source replaces nothing. Once committed,
\* the document holds exactly that.
C6_MergeFrame ==
    /\ LET m == Map0
           ops == IssuedOps
       IN \A n \in 1..Len(ops) :
          ops[n].type = "update" =>
              \E i \in Processed :
                  /\ UniqueKey(externalGames[i]) \in DOMAIN m
                  /\ m[UniqueKey(externalGames[i])].id = ops[n].id
                  /\ LET p == m[UniqueKey(externalGames[i])].data
                         e == externalGames[i]
                         w == ops[n].data
                     IN  /\ DOMAIN w = DOMAIN p
                         /\ w.name = p.name
                         /\ w.system = p.system
                         /\ w.url = IF C3_RuleA(p, e) THEN e.url ELSE p.url
                         /\ w.thumbnail = IF C3_RuleB(p, e) THEN e.thumbnail
                                          ELSE p.thumbnail
                         /\ w.category = IF C3_RuleC(p, e) THEN e.category
                                         ELSE p.category
                         /\ w.source = IF C3_RuleD(p, e) THEN e.source
                                       ELSE p.source
                         /\ e.url = << >> => w.url = p.url
                         /\ e.thumbnail = << >> => w.thumbnail = p.thumbnail
                         /\ e.source = "" => w.source = p.source
    /\ \A b \in 1..Len(committed) : \A n \in 1..Len(committed[b]) :
          committed[b][n].type = "update" =>
              store[committed[b][n].id] = committed[b][n].data

\* A committed update in which the url rule fired, the category rule did not
\* although the categories differ, and an empty external source left the
\* stored source in place.
C6_Witness ==
    /\ RunEnded
    /\ \E b \in 1..Len(committed) : \E n \in 1..Len(committed[b]) :
          /\ committed[b][n].type = "update"
          /\ \E i \in Processed :
                /\ Matched(i)
                /\ Persisted(i).id = committed[b][n].id
                /\ C3_RuleA(Persisted(i).data, externalGames[i])
                /\ ~C3_RuleC(Persisted(i).data, externalGames[i])
                /\ Persisted(i).data.category # externalGames[i].category
                /\ externalGames[i].source = ""
                /\ Persisted(i).data.source # ""
                /\ store[Persisted(i).id].source = Persisted(i).data.source
                /\ store[Persisted(i).id].url = externalGames[i].url

\* ---------------------------------------------------------------------- C7
CeilDiv(n, m) == (n + m - 1) \div m

\* C7: every committed batch, and the batch of a commit in flight, holds
\* between 1 and BATCH_SIZE operations; at most one commit is in flight; a
\* run whose commits all succeeded issued ceil(N / BATCH_SIZE) commits for
\* its N operations.
C7_BatchSizing ==
    /\ inFlight <= 1
    /\ \A b \in 1..Len(committed) :
          Len(committed[b]) >= 1 /\ Len(committed[b]) <= BATCH_SIZE
    /\ pc \in {"committing", "finalCommit"} =>
          /\ inFlight = 1
          /\ Len(currentBatch) >= 1 /\ Len(currentBatch) <= BATCH_SIZE
    /\ (RunEnded /\ failure = "report") =>
          Len(committed) = CeilDiv(additionsCount + updatesCount, BATCH_SIZE)
    /\ \A r \in 1..Len(history) :
          history[r].failure = "report" =>
              history[r].commits =
                  CeilDiv(history[r].additions + history[r].updates, BATCH_SIZE)

\* A run of more operations than one batch holds, not a multiple of the
\* batch size: a full batch and a smaller final one.
C7_Witness ==
    /\ RunEnded /\ failure = "report"
    /\ additionsCount + updatesCount > BATCH_SIZE
    /\ Len(committed) >= 2
    /\ Len(committed[Len(committed)]) < BATCH_SIZE

\* ---------------------------------------------------------------------- C8
RECURSIVE ApplyAll(_, _)
ApplyAll(st, batches) ==
    IF batches = << >> THEN st
    ELSE ApplyAll(ApplyBatch(st, Head(batches)), Tail(batches))

\* What a run without failure makes of collection st given the aggregate
\* ext: the documents of st, merged where matched, and the added records.
FailureFreeKept(st, ext) ==
    LET m == LoadMap(st)
    IN  [d \in DOMAIN st |->
            IF \E i \in 1..Len(ext) :
                  UniqueKey(ext[i]) \in DOMAIN m /\ m[UniqueKey(ext[i])].id = d
            THEN LET i == CHOOSE i \in 1..Len(ext) :
                            UniqueKey(ext[i]) \in DOMAIN m
                            /\ m[UniqueKey(ext[i])].id = d
                 IN  Merged(st[d], ext[i])
            ELSE st[d]]

FailureFreeAdded(st, ext) ==
    {ext[i] : i \in {j \in 1..Len(ext) : UniqueKey(ext[j]) \notin DOMAIN LoadMap(st)}}

SameAsFailureFree(st, ext) ==
    LET new == DOMAIN store \ DOMAIN st
    IN  /\ DOMAIN st \subseteq DOMAIN store
        /\ \A d \in DOMAIN st : store[d] = FailureFreeKept(st, ext)[d]
        /\ {store[d] : d \in new} = FailureFreeAdded(st, ext)
        /\ Cardinality(new) = Cardinality(FailureFreeAdded(st, ext))

\* C8: a failed commit ends the run with syncGames throwing; the collection
\* then holds exactly the effects of the batches committed before it; and
\* when the next run, on the same external data, gets through its commits,
\* the collection holds what a failure-free run from the original collection
\* produces (up to generated identifiers and the random category fallback).
C8_CommitFailure ==
    /\ failure = "commit" =>
          /\ pc = "idle"
          /\ outcome = "thrown"
          /\ inFlight = 0
          /\ store = ApplyAll(store0, committed)
    /\ ( /\ pc = "idle"
         /\ Len(history) >= 2
         /\ history[Len(history) - 1].failure = "commit"
         /\ history[Len(history)].failure = "report" )
       => \E ext \in getAllExternalGames(endpoints) :
              SameAsFailureFree(history[Len(history) - 1].start, ext)

\* The second batch of a run failed after the first was committed, and the
\* next run added what was missing.
C8_Witness ==
    /\ pc = "idle"
    /\ Len(history) = 2
    /\ history[1].failure = "commit"
    /\ history[1].commits >= 1
    /\ history[2].failure = "report"
    /\ history[2].additions >= 1
    /\ store # history[2].start

\* ---------------------------------------------------------------------- C9
\* C9 (as claimed): a run whose load and commits all succeed ends with
\* syncGames returning and the run having reported its insertion and update
\* counts; only a failed load or commit makes it throw.
C9_CompletesAndReports ==
    (RunEnded /\ failure \notin {"load", "commit"}) =>
        /\ outcome = "returned"
        /\ reported = [logged |-> TRUE, additions |-> additionsCount,
                       updates |-> updatesCount]

\* --------------------------------------------------------------------- C10
\* C10: a run whose load of the collection failed has thrown, has invoked
\* no adapter, has issued no operation and no commit, and has left the
\* collection as it was.
C10_LoadFailureBeforeAnyWrite ==
    failure = "load" =>
        /\ pc = "idle"
        /\ outcome = "thrown"
        /\ ~adaptersInvoked
        /\ currentBatch = << >>
        /\ committed = << >>
        /\ additionsCount = 0 /\ updatesCount = 0
        /\ inFlight = 0
        /\ store = store0

\* The collection scan itself was rejected, while a reachable provider
\* served a record the collection does not hold.
C10_Witness ==
    /\ failure = "load"
    /\ pathBound
    /\ \E a \in 1..Len(endpoints) :
          /\ endpoints[a].reachable
          /\ \E n \in 1..Len(endpoints[a].listing) :
                \A d \in DOMAIN store :
                    UniqueKey(store[d]) # UniqueKey(endpoints[a].listing[n])

\* --------------------------------------------------------------------- C11
\* C11 (as claimed): an adapter whose provider is unreachable settles as
\* rejected, so that its outcome differs from that of an adapter which
\* succeeded with no records.
C11_UnreachableAdapterRejects ==
    adaptersInvoked =>
        \A a \in 1..Len(endpoints) :
            ~endpoints[a].reachable =>
                /\ allSettled(endpoints)[a].status = "rejected"
                /\ allSettled(endpoints)[a] # Fetch(Endpoint(TRUE, << >>))

\* --------------------------------------------------------------------- C12
RECURSIVE ListingsOfReachable(_)
\* What the adapters with a reachable provider returned, in registration
\* order.
ListingsOfReachable(eps) ==
    IF eps = << >> THEN << >>
    ELSE (IF Head(eps).reachable THEN Head(eps).listing ELSE << >>)
         \o ListingsOfReachable(Tail(eps))

\* The first record of recs with the IdentityKey of g.
FirstSeen(recs, g) ==
    recs[CHOOSE n \in 1..Len(recs) :
        /\ IdentityKey(recs[n]) = IdentityKey(g)
        /\ \A m \in 1..(n - 1) : IdentityKey(recs[m]) # IdentityKey(g)]

SomeAdapterFailed == \E a \in 1..Len(endpoints) : ~endpoints[a].reachable

\* C12 (as claimed): with some adapters failed, the aggregate holds, for
\* every IdentityKey a successful adapter produced, the first-seen record of
\* that key among the successful adapters' outputs, as returned.
C12_ContainsFirstSeenRecord ==
    (JustAggregated /\ SomeAdapterFailed) =>
        LET recs == ListingsOfReachable(endpoints)
        IN  \A n \in 1..Len(recs) :
                \E i \in 1..Len(externalGames) :
                    externalGames[i] = FirstSeen(recs, recs[n])

\* C12 (amended): whatever subset of adapters failed, the run goes on to
\* the reconcile loop, and the aggregate holds, for every IdentityKey a
\* successful adapter produced, the first-seen record of that key among the
\* successful adapters' outputs with its category inferred anew from its
\* name; once the adapters were invoked only a commit or the completion
\* message ends the run.
C12_ResilientAggregate ==
    /\ JustAggregated =>
          LET recs == ListingsOfReachable(endpoints)
          IN  \A n \in 1..Len(recs) :
                  LET first == FirstSeen(recs, recs[n])
                  IN  \E i \in 1..Len(externalGames) :
                        /\ [externalGames[i] EXCEPT !.category = first.category]
                              = first
                        /\ externalGames[i].category \in inferCategory(first.name)
    /\ (RunEnded /\ adaptersInvoked) => failure \in {"commit", "report"}
    /\ (adaptersInvoked /\ pc # "idle") => failure = "none"

\* One provider was unreachable and the aggregate holds the other's record.
C12_Witness ==
    /\ JustAggregated
    /\ SomeAdapterFailed
    /\ \E a \in 1..Len(endpoints) :
          /\ ~endpoints[a].reachable
          /\ endpoints[a].listing # << >>
    /\ \E a \in 1..Len(endpoints) :
          /\ endpoints[a].reachable
          /\ endpoints[a].listing # << >>
          /\ \E i \in 1..Len(externalGames) :
                externalGames[i].name = endpoints[a].listing[1].name

\* --------------------------------------------------------------------- C13
\* C13 (as claimed): in the sequence of operations a run issues to its
\* batches, no update operation precedes an insert operation.
C13_InsertsBeforeUpdates ==
    LET ops == IssuedOps
    IN  \A n, k \in 1..Len(ops) :
            n < k => ~(ops[n].type = "update" /\ ops[k].type = "set")

\* The positions in the aggregate of the records with the key of op.
PositionsOf(op) ==
    {i \in 1..Len(externalGames) :
        UniqueKey(externalGames[i]) = UniqueKey(op.data)}

\* C13 (amended): the operations of a run are issued, and so committed, in
\* the order of the aggregated external records they stem from, inserts and
\* updates interleaved: each operation stems from one record of the
\* aggregate, and an earlier operation stems from an earlier record.
C13_OpsInAggregateOrder ==
    LET ops == IssuedOps
    IN  /\ \A n \in 1..Len(ops) :
              Cardinality(PositionsOf(ops[n]) \cap Processed) = 1
        /\ \A n, k \in 1..Len(ops) :
              n < k => \A i \in PositionsOf(ops[n]), j \in PositionsOf(ops[k]) :
                          i < j

\* A run committed an update ahead of an insert.
C13_Witness ==
    /\ RunEnded /\ failure = "report"
    /\ \E n, k \in 1..Len(IssuedOps) :
          /\ n < k
          /\ IssuedOps[n].type = "update"
          /\ IssuedOps[k].type = "set"
    /\ Flatten(committed) = IssuedOps

\* --------------------------------------------------------------------- C14
\* No two documents of st share a key, under the key function key(_).
UniquePer(key(_), st) ==
    \A d, e \in DOMAIN st : key(st[d]) = key(st[e]) => d = e

\* No document is the target of two operations of ops, and no two inserts
\* of ops carry the same key.
OneOperationEach(key(_), ops) ==
    \A n, k \in 1..Len(ops) :
        n < k =>
            /\ ops[n].id # ops[k].id
            /\ (ops[n].type = "set" /\ ops[k].type = "set")
                  => key(ops[n].data) # key(ops[k].data)

====
